---- MODULE Spec2Model ----
(***************************************************************************)
(* APA7th-Formater, src/app.py: the formatting pass process_formatting     *)
(* over a python-docx document, as a state machine.                        *)
(*                                                                         *)
(* A document is the list doc.paragraphs.  A paragraph is a record         *)
(*   id                 identity of the paragraph object                   *)
(*   runs               its runs: [text, bold, italic, font]               *)
(*   brk                '<w:br w:type="page"/>' in p._element.xml          *)
(*   line_spacing, alignment, first_line_indent, left_indent               *)
(*                      paragraph_format attributes ("orig" = as loaded)   *)
(* Text is a sequence of code points; p.text is the concatenation of the   *)
(* run texts.  Indices held in variables are Python's (0-based); At(s, i)  *)
(* reads s[i].                                                             *)
(***************************************************************************)
EXTENDS Integers, Sequences, FiniteSets, Bags, TLC

VARIABLES doc, config, pc, body_start, ref_start, new_body_start,
          new_ref_start, nextId, style_font, doc0, report

vars == <<doc, config, pc, body_start, ref_start, new_body_start,
          new_ref_start, nextId, style_font, doc0, report>>

-----------------------------------------------------------------------------
(* Bounds of the checked inputs *)

\* longest document of the free family
MaxLen == 3
\* most non-blank title-page lines of the title-page family
MaxTitleLines == 6
\* most blank paragraphs between title page and body in that family
MaxGap == 2
\* longest tail after the title page / after the padding
MaxTail == 1
\* number of blank paragraphs of the padded family
PadLen == 49
\* most paragraphs after the reference title in the reference family
MaxEntries == 3
\* most body paragraphs of the citation family
MaxCiteBody == 1
\* most reference entries of the citation family
MaxCiteRefs == 2
\* most words of a generated body text
MaxWords == 15

\* SAFE_SEARCH_LIMIT of locate_structural_indices
SAFE_SEARCH_LIMIT == 50

-----------------------------------------------------------------------------
(* Text: str as a sequence of code points *)

Min(a, b) == IF a < b THEN a ELSE b

At(s, i) == s[i + 1]

\* str.isspace for the code points used: TAB LF VT FF CR and SPACE
IsSpace(c) == c \in {9, 10, 11, 12, 13, 32}

RECURSIVE lstrip(_)
lstrip(s) ==
    IF s = <<>> THEN <<>>
    ELSE IF IsSpace(Head(s)) THEN lstrip(Tail(s)) ELSE s

RECURSIVE rstrip(_)
rstrip(s) ==
    IF s = <<>> THEN <<>>
    ELSE IF IsSpace(s[Len(s)]) THEN rstrip(SubSeq(s, 1, Len(s) - 1)) ELSE s

\* str.strip()
strip(s) == rstrip(lstrip(s))

\* str.lower() on ASCII
lower(s) == [i \in 1..Len(s) |-> IF s[i] \in 65..90 THEN s[i] + 32 ELSE s[i]]

\* len(text.split()): the number of maximal runs of non-space code points
split_len(s) ==
    Cardinality({i \in 1..Len(s) :
                   /\ ~IsSpace(s[i])
                   /\ (i = 1 \/ IsSpace(s[i - 1]))})

\* Python's str ordering: lexicographic by code point
RECURSIVE str_le(_, _)
str_le(a, b) ==
    IF a = <<>> THEN TRUE
    ELSE IF b = <<>> THEN FALSE
    ELSE IF Head(a) < Head(b) THEN TRUE
    ELSE IF Head(a) > Head(b) THEN FALSE
    ELSE str_le(Tail(a), Tail(b))

S_reference == <<114, 101, 102, 101, 114, 101, 110, 99, 101>>
S_references == S_reference \o <<115>>
S_reference_list == S_reference \o <<32, 108, 105, 115, 116>>
\* the literal "References" written to the reference title
S_References == <<82>> \o Tail(S_references)

-----------------------------------------------------------------------------
(* Paragraphs *)

RECURSIVE runs_text(_)
runs_text(rs) == IF rs = <<>> THEN <<>> ELSE Head(rs).text \o runs_text(Tail(rs))

\* Paragraph.text
text(p) == runs_text(p.runs)

\* p.text.strip() is truthy
NonBlank(p) == strip(text(p)) # <<>>

\* '<w:br w:type="page"/>' in p._element.xml
HasBreak(p) == p.brk

\* a paragraph as loaded from the file: one italic run holding its text
Loaded(t, b) ==
    [id |-> 0,
     runs |-> IF t = <<>> THEN <<>>
              ELSE <<[text |-> t, bold |-> FALSE, italic |-> TRUE, font |-> "orig"]>>,
     brk |-> b,
     line_spacing |-> "orig", alignment |-> "orig",
     first_line_indent |-> "orig", left_indent |-> "orig"]

\* the paragraph objects of a loaded document, identified by position
Number(ps) == [i \in 1..Len(ps) |-> [ps[i] EXCEPT !.id = i]]

\* apply_basic_font_style, the part written to the paragraph
apply_basic_font_style(p) ==
    [p EXCEPT !.line_spacing = "double",
              !.runs = [k \in 1..Len(p.runs) |-> [p.runs[k] EXCEPT !.font = "TNR12"]]]

\* for run in p.runs: run.bold = True
bold_runs(p) ==
    [p EXCEPT !.runs = [k \in 1..Len(p.runs) |-> [p.runs[k] EXCEPT !.bold = TRUE]]]

\* p.add_run().add_break(WD_BREAK.PAGE)
add_page_break(p) ==
    [p EXCEPT !.runs = Append(p.runs, [text |-> <<>>, bold |-> FALSE,
                                       italic |-> FALSE, font |-> "orig"]),
              !.brk = TRUE]

-----------------------------------------------------------------------------
(* locate_structural_indices *)

\* the reference-title test of the scan
IsRefTitle(p) ==
    LET t == lower(strip(text(p)))
    IN  t \in {S_reference, S_references} \/ t = S_reference_list

\* ref_start_index: the first reference title, or total_pars
RefStart(ps) ==
    LET hits == {i \in 0..(Len(ps) - 1) : IsRefTitle(At(ps, i))}
    IN  IF hits = {} THEN Len(ps)
        ELSE CHOOSE i \in hits : \A j \in hits : i <= j

\* the index of the paragraph the loop variable p is left bound to after the
\* reference scan: the reference title (break), or the last paragraph.
\* Defined for a non-empty document only.
LoopP(ps) == IF RefStart(ps) < Len(ps) THEN RefStart(ps) ELSE Len(ps) - 1

\* min(SAFE_SEARCH_LIMIT, ref_start_index)
SearchLimit(ps) == Min(SAFE_SEARCH_LIMIT, RefStart(ps))

\* strategy 1: range(search_limit) tests p, the variable left over from the
\* reference scan, in every iteration; it fires in iteration 0 or never
FoundPageBreak(ps) ==
    /\ SearchLimit(ps) > 0
    /\ HasBreak(At(ps, LoopP(ps)))

\* strategy 2, first loop: target_index, the index of the 6th non-blank
\* paragraph of the window, 0 when the window has fewer
TargetIndex(ps) ==
    LET cnt(i) == Cardinality({k \in 0..i : NonBlank(At(ps, k))})
        hits == {i \in 0..(SearchLimit(ps) - 1) : cnt(i) = 6}
    IN  IF hits = {} THEN 0
        ELSE CHOOSE i \in hits : \A j \in hits : i <= j

\* strategy 2, second loop: the first non-blank paragraph in
\* range(target_index + 1, search_limit), 0 when there is none
RuleOfSix(ps) ==
    LET hits == {j \in (TargetIndex(ps) + 1)..(SearchLimit(ps) - 1) :
                   NonBlank(At(ps, j))}
    IN  IF hits = {} THEN 0
        ELSE CHOOSE j \in hits : \A k \in hits : j <= k

\* body_start_index
BodyStart(ps, has_title_page) ==
    IF ~has_title_page THEN 0
    ELSE IF FoundPageBreak(ps) THEN 0 + 1
    ELSE RuleOfSix(ps)

locate_structural_indices(ps, has_title_page) ==
    <<BodyStart(ps, has_title_page), RefStart(ps)>>

-----------------------------------------------------------------------------
(* Input documents *)

T_empty == <<>>
\* "B"
T_B == <<66>>
\* " a."
T_a == <<32, 97, 46>>
\* " Reference"
T_Ref == <<32, 82>> \o Tail(S_reference)

ParPool == {Loaded(t, b) : t \in {T_empty, T_B, T_a, T_Ref}, b \in BOOLEAN}

SeqsUpTo(S, n) == UNION {[1..k -> S] : k \in 0..n}

Copies(p, n) == [i \in 1..n |-> p]

\* n words "w" separated by single spaces
Words(n) == [i \in 1..(2 * n - 1) |-> IF i % 2 = 1 THEN 119 ELSE 32]

\* "Method"
T_Method == <<77, 101, 116, 104, 111, 100>>
\* "We used a mixed design."
T_Sentence == <<87, 101, 32, 117, 115, 101, 100, 32, 97, 32, 109, 105, 120, 101,
               100, 32, 100, 101, 115, 105, 103, 110, 46>>

\* texts around the heading threshold, with and without terminal punctuation
BodyTexts ==
    {Words(n) \o e : n \in {1, MaxWords - 1, MaxWords},
                     e \in {<<>>, <<46>>, <<58>>, <<63>>, <<33>>, <<46, 32>>}}
    \cup {S_references, S_reference_list \o <<32>>, S_references \o <<46>>,
          T_Method, T_Sentence}

\* any short document
FreeDocs == SeqsUpTo(ParPool, MaxLen)

\* a title page of k lines, g blank paragraphs, and a tail
TitleDocs ==
    {Copies(Loaded(T_B, FALSE), k) \o Copies(Loaded(<<32>>, FALSE), g) \o tl :
        k \in 0..MaxTitleLines, g \in 0..MaxGap, tl \in SeqsUpTo(ParPool, MaxTail)}

\* blank paragraphs up to the edge of the safe window, and a tail
PaddedDocs ==
    {Copies(Loaded(T_empty, FALSE), PadLen) \o tl \o <<Loaded(T_B, b)>> :
        tl \in SeqsUpTo(ParPool, MaxTail), b \in BOOLEAN}

\* two paragraphs of body text
BodyDocs == {<<Loaded(a, FALSE), Loaded(b, FALSE)>> : a, b \in BodyTexts}

\* what precedes the reference title in the reference family: nothing, one
\* body paragraph, or a title line, a blank paragraph and a body paragraph
RefLeads ==
    {<<>>,
     <<Loaded(T_a, FALSE)>>,
     <<Loaded(T_B, FALSE), Loaded(<<32>>, FALSE), Loaded(T_a, FALSE)>>}

\* a reference list: the lead, the title, the entries
RefDocs ==
    {ld \o <<Loaded(T_Ref, FALSE)>> \o es :
        ld \in RefLeads,
        es \in SeqsUpTo({Loaded(t, FALSE) : t \in {<<32>>, T_B, T_a}}, MaxEntries)}

\* "(Wang, 2020)"
B_wang == <<40, 87, 97, 110, 103, 44, 32, 50, 48, 50, 48, 41>>
\* "(see Table 1)"
B_table == <<40, 115, 101, 101, 32, 84, 97, 98, 108, 101, 32, 49, 41>>
\* "As shown (see Li, 2021; Wang et al., 2020)."
B_multi == <<65, 115, 32, 115, 104, 111, 119, 110, 32, 40, 115, 101, 101, 32, 76,
    105, 44, 32, 50, 48, 50, 49, 59, 32, 87, 97, 110, 103, 32, 101, 116,
    32, 97, 108, 46, 44, 32, 50, 48, 50, 48, 41, 46>>
\* "() (Xu & Li, n.d.)"
B_nd == <<40, 41, 32, 40, 88, 117, 32, 38, 32, 76, 105, 44, 32, 110, 46, 100,
    46, 41>>
\* "Wang, L. (2020). Title. Journal."
R_wang == <<87, 97, 110, 103, 44, 32, 76, 46, 32, 40, 50, 48, 50, 48, 41, 46,
    32, 84, 105, 116, 108, 101, 46, 32, 74, 111, 117, 114, 110, 97, 108,
    46>>
\* "Anonymous source, retrieved online"
R_anon == <<65, 110, 111, 110, 121, 109, 111, 117, 115, 32, 115, 111, 117, 114,
    99, 101, 44, 32, 114, 101, 116, 114, 105, 101, 118, 101, 100, 32, 111,
    110, 108, 105, 110, 101>>
\* "Li (2021)"
R_li == <<76, 105, 32, 40, 50, 48, 50, 49, 41>>
\* "Xu, A. (n.d.). T."
R_xu == <<88, 117, 44, 32, 65, 46, 32, 40, 110, 46, 100, 46, 41, 46, 32, 84,
    46>>
\* "1. Wang (2020)"
R_num == <<49, 46, 32, 87, 97, 110, 103, 32, 40, 50, 48, 50, 48, 41>>

CiteBodies == {B_wang, B_table, B_multi, B_nd}

CiteRefs == {R_wang, R_anon, R_li, R_xu, R_num}

\* body paragraphs with in-text citations, the title, reference entries
CiteDocs ==
    {bs \o <<Loaded(T_Ref, FALSE)>> \o es :
        bs \in SeqsUpTo({Loaded(t, FALSE) : t \in CiteBodies}, MaxCiteBody),
        es \in SeqsUpTo({Loaded(t, FALSE) : t \in CiteRefs}, MaxCiteRefs)}

Docs ==
    FreeDocs \cup TitleDocs \cup PaddedDocs \cup BodyDocs \cup RefDocs
    \cup CiteDocs

Configs == [has_title_page : BOOLEAN, has_article_title : BOOLEAN,
            sort_references : BOOLEAN]

-----------------------------------------------------------------------------
(* process_formatting *)

Init ==
    /\ doc \in {Number(d) : d \in Docs}
    /\ doc0 = doc
    /\ config \in Configs
    /\ pc = "locate"
    /\ body_start = 0
    /\ ref_start = 0
    /\ new_body_start = 0
    /\ new_ref_start = 0
    /\ nextId = Len(doc) + 1
    /\ style_font = "orig"
    /\ report = [missing_in_refs |-> <<>>, missing_in_body |-> <<>>]

\* body_start, ref_start = locate_structural_indices(doc, config['has_title_page'])
Locate ==
    /\ pc = "locate"
    /\ body_start' = locate_structural_indices(doc, config.has_title_page)[1]
    /\ ref_start' = locate_structural_indices(doc, config.has_title_page)[2]
    /\ pc' = "title"
    /\ UNCHANGED <<doc, config, new_body_start, new_ref_start, nextId,
                   style_font, doc0, report>>

\* the paragraphs of ps at the (1-based) positions outside D, in order
RECURSIVE Without(_, _)
Without(ps, D) ==
    IF ps = <<>> THEN <<>>
    ELSE LET n == Len(ps)
             front == Without(SubSeq(ps, 1, n - 1), D)
         IN  IF n \in D THEN front ELSE Append(front, ps[n])

\* phase 0, loop A: paragraph i of the title page with double spacing, the
\* base font and centred; the first non-blank one also bold
TitleLine(ps, i) ==
    LET p == At(ps, i)
        q == [apply_basic_font_style(p) EXCEPT !.alignment = "center"]
        title_lines_count == Cardinality({k \in 0..i : NonBlank(At(ps, k))})
    IN  IF NonBlank(p) /\ title_lines_count = 1 THEN bold_runs(q) ELSE q

FormatTitlePage(ps, bs) ==
    [k \in 1..Len(ps) |-> IF k - 1 < bs THEN TitleLine(ps, k - 1) ELSE ps[k]]

\* the index of last_title_paragraph, -1 when the title page has no
\* non-blank paragraph (last_title_paragraph is None)
LastTitleIdx(ps, bs) ==
    LET hits == {i \in 0..(bs - 1) : NonBlank(At(ps, i))}
    IN  IF hits = {} THEN -1
        ELSE CHOOSE i \in hits : \A j \in hits : j <= i

\* BlanksToDelete starting one paragraph too low: range(body_start - 2, ...)
M_BlanksToDelete(ps, last_title_idx, bs) ==
    {idx \in (last_title_idx + 1)..(bs - 2) : ~NonBlank(At(ps, idx))}

\* phase 0, B: for idx in range(body_start - 1, last_title_idx, -1):
\* delete the paragraph when it is blank
BlanksToDelete(ps, last_title_idx, bs) ==
    {idx \in (last_title_idx + 1)..(bs - 1) : ~NonBlank(At(ps, idx))}

DeleteBlanks(ps, last_title_idx, bs) ==
    Without(ps, {idx + 1 : idx \in BlanksToDelete(ps, last_title_idx, bs)})

\* phase 0, C: has_existing_break
has_existing_break(last_title_paragraph, first_body_paragraph) ==
    HasBreak(last_title_paragraph) \/ HasBreak(first_body_paragraph)

\* spacer_p: insert_paragraph_before(), apply_basic_font_style, then the
\* run with the page break
Spacer(nid) ==
    add_page_break(apply_basic_font_style(
        [id |-> nid, runs |-> <<>>, brk |-> FALSE,
         line_spacing |-> "orig", alignment |-> "orig",
         first_line_indent |-> "orig", left_indent |-> "orig"]))

\* the position (1-based) of the paragraph object with identity id
PosOf(ps, id) == CHOOSE k \in 1..Len(ps) : ps[k].id = id

\* first_body_paragraph.insert_paragraph_before()
InsertBefore(ps, id, q) ==
    LET k == PosOf(ps, id)
    IN  SubSeq(ps, 1, k - 1) \o <<q>> \o SubSeq(ps, k, Len(ps))

\* whether phase 0 inserts the spacer
InsertsSpacer(ps, bs) ==
    /\ LastTitleIdx(ps, bs) # -1
    /\ ~has_existing_break(At(ps, LastTitleIdx(ps, bs)), At(ps, bs))

\* NormalizeTitlePage with step C outside "if last_title_paragraph:": the
\* spacer is inserted whenever the first body paragraph has no break
M_NormalizeTitlePage(ps, bs, nid) ==
    LET first_body_paragraph == At(ps, bs)
        formatted == FormatTitlePage(ps, bs)
        last_title_idx == LastTitleIdx(ps, bs)
        cleaned == IF last_title_idx = -1 THEN formatted
                   ELSE DeleteBlanks(formatted, last_title_idx, bs)
        existing == IF last_title_idx = -1 THEN HasBreak(first_body_paragraph)
                    ELSE has_existing_break(At(ps, last_title_idx),
                                            first_body_paragraph)
    IN  IF existing THEN cleaned
        ELSE InsertBefore(cleaned, first_body_paragraph.id, Spacer(nid))

\* phase 0 on the paragraph list ps with body_start bs < len(ps)
NormalizeTitlePage(ps, bs, nid) ==
    LET first_body_paragraph == At(ps, bs)
        formatted == FormatTitlePage(ps, bs)
        last_title_idx == LastTitleIdx(ps, bs)
        cleaned == DeleteBlanks(formatted, last_title_idx, bs)
    IN  IF last_title_idx = -1 THEN formatted
        ELSE IF InsertsSpacer(ps, bs)
             THEN InsertBefore(cleaned, first_body_paragraph.id, Spacer(nid))
             ELSE cleaned

\* if config['has_title_page'] and body_start > 0
TitlePageGuard == config.has_title_page /\ body_start > 0

\* first_body_paragraph = paragraphs[body_start] with body_start = len(paragraphs):
\* IndexError, the pass ends with nothing written
TitlePageRaise ==
    /\ pc = "title"
    /\ TitlePageGuard
    /\ body_start >= Len(doc)
    /\ pc' = "raised"
    /\ UNCHANGED <<doc, config, body_start, ref_start, new_body_start,
                   new_ref_start, nextId, style_font, doc0, report>>

TitlePage ==
    /\ pc = "title"
    /\ TitlePageGuard
    /\ body_start < Len(doc)
    /\ doc' = NormalizeTitlePage(doc, body_start, nextId)
    /\ nextId' = IF InsertsSpacer(doc, body_start) THEN nextId + 1 ELSE nextId
    /\ style_font' = "TNR12"
    /\ pc' = "relocate"
    /\ UNCHANGED <<config, body_start, ref_start, new_body_start,
                   new_ref_start, doc0, report>>

TitlePageSkip ==
    /\ pc = "title"
    /\ ~TitlePageGuard
    /\ pc' = "relocate"
    /\ UNCHANGED <<doc, config, body_start, ref_start, new_body_start,
                   new_ref_start, nextId, style_font, doc0, report>>

\* the re-location of body_start: the successor of the first paragraph of
\* the whole document that carries a hard break, 0 when there is none
BreakSuccessor(ps) ==
    LET hits == {i \in 0..(Len(ps) - 1) : HasBreak(At(ps, i))}
    IN  IF hits = {} THEN 0
        ELSE (CHOOSE i \in hits : \A j \in hits : i <= j) + 1

NewBodyStart(ps, has_title_page) ==
    IF has_title_page THEN BreakSuccessor(ps) ELSE 0

\* new_body_start and _, new_ref_start = locate_structural_indices(doc, False)
Relocate ==
    /\ pc = "relocate"
    /\ new_body_start' = NewBodyStart(doc, config.has_title_page)
    /\ new_ref_start' = locate_structural_indices(doc, FALSE)[2]
    /\ pc' = "body"
    /\ UNCHANGED <<doc, config, body_start, ref_start, nextId, style_font, doc0, report>>

\* text[-1] not in ['.', ':', '?', '!']
EndsSentence(t) == t[Len(t)] \in {46, 58, 63, 33}

\* IsHeading with the word limit off by one: <= 15
M_IsHeading(t) == split_len(t) <= 15 /\ ~EndsSentence(t)

\* Case 2 of the body loop, on the stripped non-empty text
IsHeading(t) == split_len(t) < 15 /\ ~EndsSentence(t)

\* the branch of the body loop taken for paragraph p at index i
Role(p, i, nbs, has_article_title) ==
    LET t == strip(text(p))
    IN  IF t = <<>> THEN "skip"
        ELSE IF i = nbs /\ has_article_title THEN "ArticleTitle"
        ELSE IF IsHeading(t) THEN "Heading"
        ELSE "BodyText"

\* what the branch writes
Styled(p, role) ==
    LET q == apply_basic_font_style(p)
    IN  CASE role = "skip" -> p
          [] role = "ArticleTitle" ->
               bold_runs([q EXCEPT !.alignment = "center",
                                   !.first_line_indent = "0"])
          [] role = "Heading" ->
               bold_runs([q EXCEPT !.alignment = "left",
                                   !.first_line_indent = "0",
                                   !.left_indent = "0"])
          [] role = "BodyText" ->
               [q EXCEPT !.alignment = "left",
                         !.first_line_indent = "0.5",
                         !.left_indent = "0"]

\* phase I: for i in range(new_body_start, new_ref_start)
ClassifyRange(ps, nbs, nrs, has_article_title) ==
    [k \in 1..Len(ps) |->
        IF nbs <= k - 1 /\ k - 1 < nrs
        THEN Styled(ps[k], Role(ps[k], k - 1, nbs, has_article_title))
        ELSE ps[k]]

ClassifyBody ==
    /\ pc = "body"
    /\ doc' = ClassifyRange(doc, new_body_start, new_ref_start,
                            config.has_article_title)
    /\ style_font' =
         IF \E i \in new_body_start..(new_ref_start - 1) : NonBlank(At(doc, i))
         THEN "TNR12" ELSE style_font
    /\ pc' = "refs"
    /\ UNCHANGED <<config, body_start, ref_start, new_body_start,
                   new_ref_start, nextId, doc0, report>>

\* ref_entries: the stripped texts of the non-blank paragraphs after the
\* reference title, in order
RECURSIVE EntryTexts(_)
EntryTexts(ps) ==
    IF ps = <<>> THEN <<>>
    ELSE LET rest == EntryTexts(Tail(ps))
         IN  IF NonBlank(Head(ps)) THEN <<strip(text(Head(ps)))>> \o rest
             ELSE rest

RefEntries(ps, nrs) == EntryTexts(SubSeq(ps, nrs + 2, Len(ps)))

\* list.sort() on strings
RECURSIVE InsertSorted(_, _)
InsertSorted(x, s) ==
    IF s = <<>> THEN <<x>>
    ELSE IF str_le(x, Head(s)) THEN <<x>> \o s
    ELSE <<Head(s)>> \o InsertSorted(x, Tail(s))

RECURSIVE sort(_)
sort(s) == IF s = <<>> THEN <<>> ELSE InsertSorted(Head(s), sort(Tail(s)))

\* OrderedEntries with the sort left out
M_OrderedEntries(entries, sort_references) == entries

\* the entries as they are written back
OrderedEntries(entries, sort_references) ==
    IF sort_references THEN sort(entries) ELSE entries

\* new_p = doc.add_paragraph(entry) with the base style and the hanging indent
NewEntry(entry, nid) ==
    [apply_basic_font_style(
        [id |-> nid,
         runs |-> <<[text |-> entry, bold |-> FALSE, italic |-> FALSE,
                     font |-> "orig"]>>,
         brk |-> FALSE,
         line_spacing |-> "orig", alignment |-> "orig",
         first_line_indent |-> "orig", left_indent |-> "orig"])
     EXCEPT !.first_line_indent = "-0.5", !.left_indent = "0.5"]

\* the paragraph before the reference title gets the page break it lacks
BreakBefore(p) == IF HasBreak(p) THEN p ELSE add_page_break(p)

\* ref_title_p.text = "References" drops the runs (and a break among them);
\* then base style, centred, zero indent, bold
RefTitle(p) ==
    bold_runs([apply_basic_font_style(
        [p EXCEPT !.runs = <<[text |-> S_References, bold |-> FALSE,
                              italic |-> FALSE, font |-> "orig"]>>,
                  !.brk = FALSE])
      EXCEPT !.alignment = "center", !.first_line_indent = "0"])

\* the paragraphs that stay: everything up to the reference title; the loop
\* range(len(paragraphs) - 1, new_ref_start, -1) deletes the rest
KeptHead(ps, nrs) ==
    [k \in 1..(nrs + 1) |->
        IF k = nrs + 1 THEN RefTitle(ps[k])
        ELSE IF k = nrs THEN BreakBefore(ps[k])
        ELSE ps[k]]

\* phase II on the paragraph list ps with new_ref_start nrs < len(ps)
NormalizeReferences(ps, nrs, sort_references, nid) ==
    LET entries == OrderedEntries(RefEntries(ps, nrs), sort_references)
    IN  KeptHead(ps, nrs)
        \o [k \in 1..Len(entries) |-> NewEntry(entries[k], nid + k - 1)]

References ==
    /\ pc = "refs"
    /\ new_ref_start < Len(doc)
    /\ doc' = NormalizeReferences(doc, new_ref_start, config.sort_references,
                                  nextId)
    /\ nextId' = nextId + Len(RefEntries(doc, new_ref_start))
    /\ style_font' = "TNR12"
    /\ pc' = "done"
    /\ UNCHANGED <<config, body_start, ref_start, new_body_start,
                   new_ref_start, doc0, report>>

ReferencesSkip ==
    /\ pc = "refs"
    /\ new_ref_start >= Len(doc)
    /\ pc' = "done"
    /\ UNCHANGED <<doc, config, body_start, ref_start, new_body_start,
                   new_ref_start, nextId, style_font, doc0, report>>

-----------------------------------------------------------------------------
(* check_missing_citations *)

\* \d
IsDigit(c) == c \in 48..57

\* [a-zA-Z\u4e00-\u9fa5]
IsLetter(c) == c \in 65..90 \/ c \in 97..122 \/ c \in 19968..40869

\* re.sub(r'[^a-zA-Z\u4e00-\u9fa5]', '', s)
letters_only(s) == SelectSeq(s, IsLetter)

\* \d{4}|n\.d\. matches at position i (1-based) of s
YearAt(s, i) ==
    /\ i + 3 <= Len(s)
    /\ \/ \A k \in 0..3 : IsDigit(s[i + k])
       \/ SubSeq(s, i, i + 3) = <<110, 46, 100, 46>>

\* the positions where \((\d{4}|n\.d\.)\) matches
ParenYearAt(s) ==
    {i \in 1..(Len(s) - 5) : s[i] = 40 /\ YearAt(s, i + 1) /\ s[i + 5] = 41}

\* the least element of a non-empty set of positions: re.search is leftmost
First(S) == CHOOSE i \in S : \A j \in S : i <= j

\* s.split(c) for a one-character separator
RECURSIVE split(_, _)
split(s, c) ==
    LET at == {i \in 1..Len(s) : s[i] = c}
    IN  IF at = {} THEN <<s>>
        ELSE <<SubSeq(s, 1, First(at) - 1)>>
             \o split(SubSeq(s, First(at) + 1, Len(s)), c)

\* step A: the key of one reference entry, as a set: empty when the entry has
\* no parenthesized year, nothing before it, or no letter in the first token
RefKey(ref_item) ==
    IF ParenYearAt(ref_item) = {} THEN {}
    ELSE LET start == First(ParenYearAt(ref_item))
             year == SubSeq(ref_item, start + 1, start + 4)
             pre_year_text == SubSeq(ref_item, 1, start - 1)
             first_author ==
                 letters_only(split(strip(split(pre_year_text, 44)[1]), 32)[1])
         IN  IF pre_year_text = <<>> \/ first_author = <<>> THEN {}
             ELSE {<<lower(first_author), year>>}

\* the title test of the partition: 'references' or 'reference list'
IsCiteRefTitle(p) ==
    lower(strip(text(p))) \in {S_references, S_reference_list}

\* the number of paragraphs before the first title (all when there is none)
CiteBodyLen(ps) ==
    LET hits == {k \in 1..Len(ps) : IsCiteRefTitle(ps[k])}
    IN  IF hits = {} THEN Len(ps) ELSE First(hits) - 1

\* body_text: the stripped texts before the title, each followed by " "
RECURSIVE JoinTexts(_)
JoinTexts(ps) ==
    IF ps = <<>> THEN <<>>
    ELSE strip(text(Head(ps))) \o <<32>> \o JoinTexts(Tail(ps))

body_text(ps) == JoinTexts(SubSeq(ps, 1, CiteBodyLen(ps)))

\* ref_text_list: the stripped non-blank texts after the first title, further
\* titles skipped
ref_text_list(ps) ==
    EntryTexts(SelectSeq(SubSeq(ps, CiteBodyLen(ps) + 2, Len(ps)),
                         LAMBDA p : ~IsCiteRefTitle(p)))

\* ref_keys
RefKeys(ps) ==
    UNION {RefKey(ref_text_list(ps)[k]) : k \in 1..Len(ref_text_list(ps))}

\* re.findall(r'\(([^)]+)\)', s): the contents of the parentheses, left to
\* right, not overlapping; "()" is no match
RECURSIVE parentheses_content(_)
parentheses_content(s) ==
    IF s = <<>> THEN <<>>
    ELSE IF Head(s) # 40 THEN parentheses_content(Tail(s))
    ELSE LET rest == Tail(s)
             closes == {j \in 1..Len(rest) : rest[j] = 41}
         IN  IF closes = {} THEN <<>>
             ELSE IF First(closes) = 1 THEN parentheses_content(rest)
             ELSE <<SubSeq(rest, 1, First(closes) - 1)>>
                  \o parentheses_content(SubSeq(rest, First(closes) + 1, Len(rest)))

\* re.search(r'\d{4}|n\.d\.', s): the match positions
YearPositions(s) == {i \in 1..Len(s) : YearAt(s, i)}

\* [\s,&]
IsSeparator(c) == IsSpace(c) \/ c = 44 \/ c = 38

\* the non-empty pieces of re.split(r'[\s,&]+', s)
RECURSIVE tokens(_)
tokens(s) ==
    IF s = <<>> THEN <<>>
    ELSE IF IsSeparator(Head(s)) THEN tokens(Tail(s))
    ELSE LET seps == {i \in 1..Len(s) : IsSeparator(s[i])}
             n == IF seps = {} THEN Len(s) ELSE First(seps) - 1
         IN  <<SubSeq(s, 1, n)>> \o tokens(SubSeq(s, n + 1, Len(s)))

\* ignore_words: see, e.g., cf., also, table, figure
ignore_words ==
    {<<115, 101, 101>>, <<101, 46, 103, 46>>, <<99, 102, 46>>,
     <<97, 108, 115, 111>>, <<116, 97, 98, 108, 101>>,
     <<102, 105, 103, 117, 114, 101>>}

\* step B, inner loop: the key of one sub-citation, as a set
CiteKey(piece) ==
    LET cite == strip(piece)
    IN  IF YearPositions(cite) = {} THEN {}
        ELSE LET start == First(YearPositions(cite))
                 year == SubSeq(cite, start, start + 3)
                 author_part == strip(SubSeq(cite, 1, start - 1))
                 clean_tokens ==
                     SelectSeq(tokens(author_part),
                               LAMBDA t : lower(t) \notin ignore_words)
             IN  IF clean_tokens = <<>> THEN {}
                 ELSE IF letters_only(clean_tokens[1]) = <<>> THEN {}
                 ELSE {<<lower(letters_only(clean_tokens[1])), year>>}

\* step B, outer loop: the keys of one parenthesis, none without a year
ContentKeys(content) ==
    IF YearPositions(content) = {} THEN {}
    ELSE UNION {CiteKey(split(content, 59)[k]) :
                  k \in 1..Len(split(content, 59))}

\* body_keys
BodyKeys(ps) ==
    LET found == parentheses_content(body_text(ps))
    IN  UNION {ContentKeys(found[k]) : k \in 1..Len(found)}

\* missing_in_body = ref_keys - body_keys, with the operands exchanged
M_missing_in_body(body_keys, ref_keys) == body_keys \ ref_keys

\* step C
missing_in_refs(body_keys, ref_keys) == body_keys \ ref_keys

missing_in_body(body_keys, ref_keys) == ref_keys \ body_keys

\* list(a_set): the elements once each, in an order Python does not fix
Orderings(S) ==
    {f \in [1..Cardinality(S) -> S] :
        \A a, b \in 1..Cardinality(S) : a # b => f[a] # f[b]}

\* main: missing_in_refs, missing_in_body = check_missing_citations(doc),
\* after process_formatting has returned
CheckCitations ==
    /\ pc = "done"
    /\ \E a \in Orderings(missing_in_refs(BodyKeys(doc), RefKeys(doc))),
          b \in Orderings(missing_in_body(BodyKeys(doc), RefKeys(doc))) :
          report' = [missing_in_refs |-> a, missing_in_body |-> b]
    /\ pc' = "checked"
    /\ UNCHANGED <<doc, config, body_start, ref_start, new_body_start,
                   new_ref_start, nextId, style_font, doc0>>

Next ==
    \/ Locate
    \/ TitlePageRaise
    \/ TitlePage
    \/ TitlePageSkip
    \/ Relocate
    \/ ClassifyBody
    \/ References
    \/ ReferencesSkip
    \/ CheckCitations

Spec == Init /\ [][Next]_vars

-----------------------------------------------------------------------------
(* Properties *)

\* the ids of the paragraphs of ps
Ids(ps) == {ps[k].id : k \in 1..Len(ps)}

\* the indices of the safe window that carry a hard break
BreaksInWindow(ps) ==
    {i \in 0..(Min(SAFE_SEARCH_LIMIT, RefStart(ps)) - 1) : HasBreak(At(ps, i))}

\* the number of non-blank paragraphs of ps[0:n)
NonBlanksBefore(ps, n) == Cardinality({k \in 0..(n - 1) : NonBlank(At(ps, k))})

\* C1: with has_title_page, when a paragraph of the window
\* [0, min(50, ref_start)) carries a hard break, the located body_start is the
\* index of the first such paragraph plus one.
C1_FirstBreakPlusOne ==
    (/\ pc = "title"
     /\ config.has_title_page
     /\ BreaksInWindow(doc0) # {})
    => \E i \in BreaksInWindow(doc0) :
          /\ \A j \in BreaksInWindow(doc0) : i <= j
          /\ body_start = i + 1

\* C2: with has_title_page and no hard break found, body_start is 0 or the
\* index, inside the window, of a non-blank paragraph preceded by exactly six
\* non-blank paragraphs; and it is 0 when the window has no non-blank
\* paragraph after a sixth non-blank one.
C2_RuleOfSix ==
    (/\ pc = "title"
     /\ config.has_title_page
     /\ BreaksInWindow(doc0) = {}
     /\ ~FoundPageBreak(doc0))
    => LET W == Min(SAFE_SEARCH_LIMIT, RefStart(doc0))
           after6 == {j \in 0..(W - 1) : /\ NonBlank(At(doc0, j))
                                         /\ NonBlanksBefore(doc0, j) >= 6}
       IN  /\ \/ body_start = 0
              \/ /\ body_start \in 0..(W - 1)
                 /\ NonBlank(At(doc0, body_start))
                 /\ NonBlanksBefore(doc0, body_start) = 6
           /\ after6 = {} => body_start = 0

\* C3: 0 <= body_start <= ref_start <= len(document) for the pair of the
\* initial locate, and for the re-located pair when it is computed.
C3_BoundariesOrdered ==
    /\ pc # "locate" =>
         /\ 0 <= body_start
         /\ body_start <= ref_start
         /\ ref_start <= Len(doc0)
    /\ pc = "body" =>
         /\ 0 <= new_body_start
         /\ new_body_start <= new_ref_start
         /\ new_ref_start <= Len(doc)

\* the positions (1-based) of the non-blank paragraphs after the reference title
EntryPositions(ps) ==
    {k \in (RefStart(ps) + 2)..Len(ps) : NonBlank(ps[k])}

\* C4: without sort_references, every non-blank reference entry paragraph
\* stays in the store: the same paragraph object, in the original order, with
\* its runs' text and italics.
C4_EntriesKeptInPlace ==
    (/\ pc = "done"
     /\ ~config.sort_references
     /\ RefStart(doc0) < Len(doc0))
    => /\ \A k \in EntryPositions(doc0) :
             \E m \in 1..Len(doc) :
                /\ doc[m].id = doc0[k].id
                /\ Len(doc[m].runs) = Len(doc0[k].runs)
                /\ \A r \in 1..Len(doc0[k].runs) :
                      /\ doc[m].runs[r].text = doc0[k].runs[r].text
                      /\ doc[m].runs[r].italic = doc0[k].runs[r].italic
       /\ \A k1, k2 \in EntryPositions(doc0) :
             k1 < k2 =>
                \A m1, m2 \in 1..Len(doc) :
                   (doc[m1].id = doc0[k1].id /\ doc[m2].id = doc0[k2].id)
                   => m1 < m2

\* C5: with has_title_page and an initial body_start of 0, the title page
\* phase writes nothing and the body range starts at index 0.
C5_TitlePageMissStartsAtZero ==
    (/\ pc = "body"
     /\ config.has_title_page
     /\ body_start = 0)
    => /\ doc = doc0
       /\ new_body_start = 0

\* C6: process_formatting never raises: no paragraph index it dereferences is
\* out of range.
C6_NeverRaises == pc # "raised"

\* the title page phase has been entered with only blank paragraphs before
\* body_start
BlankTitlePage ==
    /\ pc \in {"relocate", "raised"}
    /\ config.has_title_page
    /\ body_start > 0
    /\ \A i \in 0..(Min(body_start, Len(doc0)) - 1) : ~NonBlank(At(doc0, i))

\* C7 as stated: with only blank paragraphs before body_start the title page
\* phase changes nothing at all.
C7_NoMutationAtAll == BlankTitlePage => (doc = doc0 /\ style_font = "orig")

\* C7 as amended: with only blank paragraphs before body_start the title page
\* phase deletes and inserts no paragraph, changes no run's text, bold or
\* italics, no break and no indent, and leaves the paragraphs from body_start
\* on as they were; the blank paragraphs before body_start do get double line
\* spacing, the base font and centre alignment.
C7_NoStructuralMutation ==
    BlankTitlePage =>
       /\ Len(doc) = Len(doc0)
       /\ \A k \in 1..Len(doc0) :
             /\ doc[k].id = doc0[k].id
             /\ doc[k].brk = doc0[k].brk
             /\ doc[k].first_line_indent = doc0[k].first_line_indent
             /\ doc[k].left_indent = doc0[k].left_indent
             /\ Len(doc[k].runs) = Len(doc0[k].runs)
             /\ \A r \in 1..Len(doc0[k].runs) :
                   /\ doc[k].runs[r].text = doc0[k].runs[r].text
                   /\ doc[k].runs[r].bold = doc0[k].runs[r].bold
                   /\ doc[k].runs[r].italic = doc0[k].runs[r].italic
             /\ k - 1 >= body_start => doc[k] = doc0[k]
             /\ (k - 1 < body_start /\ pc = "relocate") =>
                   /\ doc[k].line_spacing = "double"
                   /\ doc[k].alignment = "center"
                   /\ \A r \in 1..Len(doc[k].runs) : doc[k].runs[r].font = "TNR12"

\* a blank title page holding a blank paragraph with a run has been formatted
C7_Witness ==
    /\ BlankTitlePage
    /\ pc = "relocate"
    /\ \E i \in 0..(body_start - 1) : At(doc0, i).runs # <<>>
    /\ doc # doc0

\* the title page phase has run on a title page with a non-blank paragraph,
\* and neither the last such paragraph nor the first body paragraph carried a
\* hard break
NormalizerInserts ==
    /\ pc = "relocate"
    /\ config.has_title_page
    /\ body_start > 0
    /\ body_start < Len(doc0)
    /\ NonBlanksBefore(doc0, body_start) > 0
    /\ ~HasBreak(At(doc0, LastTitleIdx(doc0, body_start)))
    /\ ~HasBreak(At(doc0, body_start))

\* C8: then the store holds, between the last non-blank title-page paragraph
\* and the first body paragraph, exactly one paragraph, new, empty and carrying
\* a hard break; every blank paragraph that stood between them is gone, no
\* non-blank paragraph is gone, and the length changed by 1 minus the number of
\* deleted paragraphs.
C8_OneSpacerBetween ==
    NormalizerInserts =>
       LET last == At(doc0, LastTitleIdx(doc0, body_start))
           first == At(doc0, body_start)
           between == {At(doc0, i).id :
                         i \in (LastTitleIdx(doc0, body_start) + 1)..(body_start - 1)}
           deleted == Ids(doc0) \ Ids(doc)
       IN  /\ last.id \in Ids(doc)
           /\ first.id \in Ids(doc)
           /\ PosOf(doc, first.id) = PosOf(doc, last.id) + 2
           /\ LET sp == doc[PosOf(doc, last.id) + 1]
              IN  /\ sp.id \notin Ids(doc0)
                  /\ text(sp) = <<>>
                  /\ HasBreak(sp)
           /\ between \subseteq deleted
           /\ \A k \in 1..Len(doc0) : NonBlank(doc0[k]) => doc0[k].id \in Ids(doc)
           /\ Len(doc) = Len(doc0) + 1 - Cardinality(deleted)
           /\ Cardinality(Ids(doc)) = Len(doc)

\* six title lines, two blank paragraphs and the body: both blanks deleted,
\* the spacer inserted
C8_Witness ==
    /\ NormalizerInserts
    /\ LastTitleIdx(doc0, body_start) = 5
    /\ body_start = 8
    /\ Len(doc) = Len(doc0) - 1

\* the stripped texts of the non-blank paragraphs after the reference title
InputEntries(ps) == EntryTexts(SubSeq(ps, RefStart(ps) + 2, Len(ps)))

\* the texts of the paragraphs after the reference title, as they are
OutputEntries(ps) ==
    [k \in 1..(Len(ps) - RefStart(ps) - 1) |-> text(ps[RefStart(ps) + 1 + k])]

\* the bag of the elements of a sequence
BagOf(sq) ==
    LET vals == {sq[k] : k \in 1..Len(sq)}
    IN  [v \in vals |-> Cardinality({k \in 1..Len(sq) : sq[k] = v})]

\* a pass over a document with a reference section and sort_references has
\* completed
SortedPassDone ==
    /\ pc = "done"
    /\ config.sort_references
    /\ RefStart(doc0) < Len(doc0)

\* C9: with a reference section and sort_references, the paragraphs after the
\* reference title are the stripped texts of the non-blank input reference
\* paragraphs in non-decreasing code-point order: same bag, same count, none
\* blank.
C9_SortedEntries ==
    SortedPassDone =>
       LET out == OutputEntries(doc)
           inp == InputEntries(doc0)
       IN  /\ Len(out) = Len(inp)
           /\ BagOf(out) = BagOf(inp)
           /\ \A k \in 1..Len(out) : strip(out[k]) = out[k] /\ out[k] # <<>>
           /\ \A k \in 1..(Len(out) - 1) : str_le(out[k], out[k + 1])

\* entries that were out of order, among them a blank one and one with
\* surrounding white space, have been sorted
C9_Witness ==
    /\ SortedPassDone
    /\ Len(InputEntries(doc0)) >= 2
    /\ \E k \in 1..(Len(InputEntries(doc0)) - 1) :
          ~str_le(InputEntries(doc0)[k], InputEntries(doc0)[k + 1])
    /\ \E k \in (RefStart(doc0) + 2)..Len(doc0) : ~NonBlank(doc0[k])
    /\ \E k \in (RefStart(doc0) + 2)..Len(doc0) :
          NonBlank(doc0[k]) /\ strip(text(doc0[k])) # text(doc0[k])

\* the styles of the three outcomes of the body loop
IsArticleTitleStyle(q) ==
    /\ q.line_spacing = "double"
    /\ q.alignment = "center"
    /\ q.first_line_indent = "0"
    /\ \A r \in 1..Len(q.runs) : q.runs[r].bold /\ q.runs[r].font = "TNR12"

IsHeadingStyle(q) ==
    /\ q.line_spacing = "double"
    /\ q.alignment = "left"
    /\ q.first_line_indent = "0"
    /\ q.left_indent = "0"
    /\ \A r \in 1..Len(q.runs) : q.runs[r].bold /\ q.runs[r].font = "TNR12"

IsBodyTextStyle(p, q) ==
    /\ q.line_spacing = "double"
    /\ q.alignment = "left"
    /\ q.first_line_indent = "0.5"
    /\ q.left_indent = "0"
    /\ \A r \in 1..Len(q.runs) :
          q.runs[r].bold = p.runs[r].bold /\ q.runs[r].font = "TNR12"

\* C10: the body loop leaves a blank paragraph of
\* [new_body_start, new_ref_start) as it is, makes the non-blank paragraph at
\* new_body_start the article title when has_article_title is set, and makes
\* any other non-blank paragraph a heading iff it has fewer than 15 words and
\* its stripped text does not end in '.', ':', '?' or '!', body text otherwise.
C10_BodyOutcomes ==
    [][pc = "body" =>
         /\ Len(doc') = Len(doc)
         /\ \A i \in new_body_start..(new_ref_start - 1) :
               LET p == At(doc, i)
                   q == At(doc', i)
                   t == strip(text(p))
                   short == split_len(t) < 15
                   ended == t[Len(t)] \in {46, 58, 63, 33}
               IN  /\ q.id = p.id /\ text(q) = text(p)
                   /\ t = <<>> => q = p
                   /\ (t # <<>> /\ i = new_body_start /\ config.has_article_title)
                         => IsArticleTitleStyle(q)
                   /\ (t # <<>> /\ ~(i = new_body_start /\ config.has_article_title))
                         => IF short /\ ~ended
                            THEN IsHeadingStyle(q)
                            ELSE IsBodyTextStyle(p, q)
    ]_vars

\* "Method" has been made a heading and "We used a mixed design." body text
C10_Witness ==
    /\ pc = "refs"
    /\ ~config.has_article_title
    /\ Len(doc) = 2
    /\ new_body_start = 0
    /\ new_ref_start = 2
    /\ text(doc[1]) = T_Method
    /\ IsHeadingStyle(doc[1])
    /\ text(doc[2]) = T_Sentence
    /\ doc[2].first_line_indent = "0.5"
    /\ doc[2].alignment = "left"

\* the title page phase has run on a title page with a non-blank paragraph,
\* and body_start and the reference boundary have been re-located
NormalizerRan ==
    /\ pc = "body"
    /\ config.has_title_page
    /\ body_start > 0
    /\ body_start < Len(doc0)
    /\ NonBlanksBefore(doc0, body_start) > 0

\* C12: whenever the Title Page Normalizer has run, the re-located
\* new_body_start designates, in the mutated store, the very paragraph object
\* the initial locate designated as the first body paragraph.
C12_RelocatedSameParagraph ==
    NormalizerRan =>
       /\ new_body_start < Len(doc)
       /\ At(doc, new_body_start).id = At(doc0, body_start).id

\* the elements of a sequence
Range(sq) == {sq[k] : k \in 1..Len(sq)}

\* the stripped texts of the paragraphs before the reference title
BodyTextsOf(ps) ==
    [k \in 1..CiteBodyLen(ps) |-> strip(text(ps[k]))]

\* the reference entries in which no parenthesized year or (n.d.) is found
YearlessEntries(ps) ==
    {e \in Range(ref_text_list(ps)) : ParenYearAt(e) = {}}

\* C11: check_missing_citations returns body keys minus reference keys and
\* reference keys minus body keys, each key once; the two results are
\* disjoint, and empty when the key sets are equal; an entry without a
\* parenthesized year contributes to neither; the document is unchanged.
\* Scenarios 3 to 5 of the specification are part of the statement.
C11_TwoWayDifference ==
    [][(pc = "done" /\ pc' = "checked") =>
         LET B == BodyKeys(doc)
             R == RefKeys(doc)
             mr == Range(report'.missing_in_refs)
             mb == Range(report'.missing_in_body)
             entries == ref_text_list(doc)
         IN  /\ mr = {k \in B : k \notin R}
             /\ mb = {k \in R : k \notin B}
             /\ Len(report'.missing_in_refs) = Cardinality(mr)
             /\ Len(report'.missing_in_body) = Cardinality(mb)
             /\ mr \cap mb = {}
             /\ B = R => (report'.missing_in_refs = <<>>
                          /\ report'.missing_in_body = <<>>)
             /\ \A k \in mb :
                   \E e \in Range(entries) \ YearlessEntries(doc) : k \in RefKey(e)
             /\ YearlessEntries(doc) = Range(entries) => (mb = {} /\ mr = B)
             /\ (BodyTextsOf(doc) = <<B_wang>> /\ entries = <<R_wang>>)
                   => (B = {<<<<119, 97, 110, 103>>, <<50, 48, 50, 48>>>>}
                       /\ R = B /\ mr = {} /\ mb = {})
             /\ BodyTextsOf(doc) = <<B_table>> => (B = {} /\ mr = {})
             /\ entries = <<R_anon>> => (R = {} /\ mb = {})
             /\ doc' = doc
    ]_vars

\* a report with keys missing on both sides, two of them on one side, from a
\* document that also holds an entry without a year
C11_Witness ==
    /\ pc = "checked"
    /\ Len(report.missing_in_refs) = 2
    /\ report.missing_in_body # <<>>
    /\ YearlessEntries(doc) # {}

\* the body and the reference list yield the same key (scenario 3) and the
\* report is empty
C11_WitnessEqual ==
    /\ pc = "checked"
    /\ BodyKeys(doc) # {}
    /\ BodyKeys(doc) = RefKeys(doc)
    /\ report = [missing_in_refs |-> <<>>, missing_in_body |-> <<>>]

====
